---- MODULE Spec2Model ----
(***************************************************************************)
(* A model of the node_modules hoisting engine of                         *)
(* packages/yarnpkg-pnpify/sources/hoist.ts.                               *)
(*                                                                         *)
(* Strings are sequences of tokens, so that the string operations of the  *)
(* source (indexOf, substring, concatenation) are computed and not        *)
(* assumed.  JS Maps and Sets are insertion-ordered: a Map is a sequence  *)
(* of entries in which a deleted entry stays as a dead slot (as in the    *)
(* [[MapData]] list of ECMAScript), a Set is a sequence without repeats.  *)
(* Work nodes are objects with identity: they live in `heap`, and a node  *)
(* reference is an index into it.                                          *)
(***************************************************************************)
EXTENDS Integers, Sequences, FiniteSets, TLC

VARIABLES
  input,         \* the HoisterTree graph handed to hoist: package -> input node
  opts,          \* the opts argument of hoist: [check, debugLevel]
  env,           \* process.env.NM_DEBUG_LEVEL
  options,       \* the InternalHoistOptions computed by hoist
  heap,          \* the work nodes (HoisterWorkTree objects); treeCopy is heap[1]
  stack,         \* the call stack of hoistTo / hoistGraph / hoistNodeDependencies
  rootNodePath,  \* the Set<Locator> created by hoist and shared by every hoistTo
  status,        \* where hoist is: "start", "hoisting", "returned", "thrown"
  output,        \* the HoisterResult objects built by shrinkTree; the result is output[1]
  error,         \* the check log of the Error hoist has thrown
  trail,         \* history: what the run has done so far (observations only)
  second         \* the outcome of a second run of hoist on the same graph

vars == <<input, opts, env, options, heap, stack, rootNodePath, status, output, error, trail, second>>

----------------------------------------------------------------------------
(* Strings *)

Range(s) == {s[i] : i \in 1..Len(s)}

Min(a, b) == IF a < b THEN a ELSE b
Max(a, b) == IF a > b THEN a ELSE b

\* String.prototype.indexOf(tok, from): 0-based, -1 when absent
IndexOf(s, tok, from) ==
  LET hits == {i \in 1..Len(s) : i - 1 >= from /\ s[i] = tok}
  IN IF hits = {} THEN -1 ELSE (CHOOSE i \in hits : \A j \in hits : i <= j) - 1

\* String.prototype.substring(a, b): arguments clamped to [0, length], swapped when a > b
Substring(s, a, b) ==
  LET ca == Min(Max(a, 0), Len(s))
      cb == Min(Max(b, 0), Len(s))
  IN SubSeq(s, Min(ca, cb) + 1, Max(ca, cb))

SubstringFrom(s, a) == Substring(s, a, Len(s))

makeLocator(name, reference) == name \o <<"@">> \o reference

makeIdent(name, reference) ==
  LET hashIdx == IndexOf(reference, "#", 0)
      realReference == IF hashIdx >= 0 THEN SubstringFrom(reference, hashIdx + 1) ELSE reference
  IN makeLocator(name, realReference)

getIdentName(locator) == Substring(locator, 0, IndexOf(locator, "@", 1))

----------------------------------------------------------------------------
(* Insertion-ordered Maps and Sets *)

MapIdx(m, k) ==
  IF \E i \in 1..Len(m) : m[i].live /\ m[i].k = k
  THEN CHOOSE i \in 1..Len(m) : m[i].live /\ m[i].k = k
  ELSE 0

MapHas(m, k) == MapIdx(m, k) # 0

\* Map.prototype.get; only used where the key is present
MapGet(m, k) == m[MapIdx(m, k)].v

\* Map.prototype.set: an existing key keeps its place, a new one goes last
MapSet(m, k, v) ==
  IF MapHas(m, k) THEN [m EXCEPT ![MapIdx(m, k)].v = v]
  ELSE Append(m, [k |-> k, v |-> v, live |-> TRUE])

\* Map.prototype.delete: the slot stays, dead
MapDelete(m, k) ==
  IF MapHas(m, k) THEN [m EXCEPT ![MapIdx(m, k)].live = FALSE] ELSE m

LiveIdx(m) == {i \in 1..Len(m) : m[i].live}

RECURSIVE MapEntriesFrom(_, _)
MapEntriesFrom(m, i) ==
  IF i > Len(m) THEN <<>>
  ELSE (IF m[i].live THEN <<m[i]>> ELSE <<>>) \o MapEntriesFrom(m, i + 1)

MapEntries(m) == MapEntriesFrom(m, 1)
MapValues(m) == [i \in 1..Len(MapEntries(m)) |-> MapEntries(m)[i].v]
MapKeys(m) == [i \in 1..Len(MapEntries(m)) |-> MapEntries(m)[i].k]
MapSize(m) == Cardinality(LiveIdx(m))

\* new Map(m): the live entries, in order
MapCopy(m) == MapEntries(m)

\* Set.prototype.add on a sequence without repeats
SetAdd(s, x) == IF x \in Range(s) THEN s ELSE Append(s, x)

----------------------------------------------------------------------------
(* Work nodes *)

Has(set, x) == x \in Range(set)

\* the node's dependencies that are not under one of its peer names, in Map order
RegularDeps(h, n) ==
  SelectSeq(MapValues(h[n].dependencies), LAMBDA d : ~Has(h[n].peerNames, h[d].name))

newWorkNode(node) ==
  [name |-> node.name,
   references |-> {node.reference},
   locator |-> makeLocator(node.identName, node.reference),
   ident |-> makeIdent(node.identName, node.reference),
   dependencies |-> <<>>,
   originalDependencies |-> <<>>,
   hoistedDependencies |-> <<>>,
   peerNames |-> node.peerNames,
   reasons |-> <<>>,
   decoupled |-> TRUE]

RECURSIVE markNodeCoupled(_, _, _), markDepsCoupled(_, _, _, _)
\* the nodes markNodeCoupled visits from `node` (seen is seenCoupledNodes)
markNodeCoupled(h, node, seen) ==
  IF node \in seen THEN seen
  ELSE markDepsCoupled(h, RegularDeps(h, node), 1, seen \cup {node})
markDepsCoupled(h, deps, i, seen) ==
  IF i > Len(deps) THEN seen
  ELSE markDepsCoupled(h, deps, i + 1, markNodeCoupled(h, deps[i], seen))

RECURSIVE cloneAddNode(_, _, _, _), cloneAddDeps(_, _, _, _, _)
\* addNode of cloneTree with the dependency stored under the package's identName
\* instead of its name
cloneAddNodeByIdentName(tree, st, p, parentNode) ==
  LET isSeen == st.seen[p] # 0
      st1 == IF isSeen THEN st
             ELSE [heap |-> Append(st.heap, newWorkNode(tree[p])),
                   seen |-> [st.seen EXCEPT ![p] = Len(st.heap) + 1]]
      workNode == st1.seen[p]
      h2 == [st1.heap EXCEPT
               ![parentNode].dependencies = MapSet(@, tree[p].identName, workNode),
               ![parentNode].originalDependencies = MapSet(@, tree[p].name, workNode)]
  IN IF ~isSeen
     THEN cloneAddDeps(tree, [st1 EXCEPT !.heap = h2], tree[p].dependencies, 1, workNode)
     ELSE LET coupled == markNodeCoupled(h2, workNode, {})
          IN [st1 EXCEPT !.heap = [n \in DOMAIN h2 |->
                 IF n \in coupled THEN [h2[n] EXCEPT !.decoupled = FALSE] ELSE h2[n]]]

\* addNode of cloneTree; st = [heap, seen], seen: package -> work node (0: not seen)
cloneAddNode(tree, st, p, parentNode) ==
  LET isSeen == st.seen[p] # 0
      st1 == IF isSeen THEN st
             ELSE [heap |-> Append(st.heap, newWorkNode(tree[p])),
                   seen |-> [st.seen EXCEPT ![p] = Len(st.heap) + 1]]
      workNode == st1.seen[p]
      h2 == [st1.heap EXCEPT
               ![parentNode].dependencies = MapSet(@, tree[p].name, workNode),
               ![parentNode].originalDependencies = MapSet(@, tree[p].name, workNode)]
  IN IF ~isSeen
     THEN cloneAddDeps(tree, [st1 EXCEPT !.heap = h2], tree[p].dependencies, 1, workNode)
     ELSE LET coupled == markNodeCoupled(h2, workNode, {})
          IN [st1 EXCEPT !.heap = [n \in DOMAIN h2 |->
                 IF n \in coupled THEN [h2[n] EXCEPT !.decoupled = FALSE] ELSE h2[n]]]
cloneAddDeps(tree, st, deps, i, workNode) ==
  IF i > Len(deps) THEN st
  ELSE cloneAddDeps(tree, cloneAddNode(tree, st, deps[i], workNode), deps, i + 1, workNode)

\* cloneTree: the heap holding the work tree; treeCopy is node 1
cloneTree(tree, root) ==
  cloneAddDeps(tree,
               [heap |-> <<newWorkNode(tree[root])>>,
                seen |-> [p \in DOMAIN tree |-> IF p = root THEN 1 ELSE 0]],
               tree[root].dependencies, 1, 1).heap

\* decoupleGraphNode: [heap, node]
decoupleGraphNode(h, parent, node) ==
  IF h[node].decoupled THEN [heap |-> h, node |-> node, written |-> {}]
  ELSE LET clone == Len(h) + 1
           copy == [name |-> h[node].name,
                    references |-> h[node].references,
                    ident |-> h[node].ident,
                    locator |-> h[node].locator,
                    dependencies |-> MapCopy(h[node].dependencies),
                    originalDependencies |-> MapCopy(h[node].originalDependencies),
                    hoistedDependencies |-> MapCopy(h[node].hoistedDependencies),
                    peerNames |-> h[node].peerNames,
                    reasons |-> MapCopy(h[node].reasons),
                    decoupled |-> TRUE]
           selfRef == /\ MapHas(copy.dependencies, copy.name)
                      /\ h[MapGet(copy.dependencies, copy.name)].ident = copy.ident
           copy2 == IF selfRef
                    THEN [copy EXCEPT !.dependencies = MapSet(@, copy.name, clone)]
                    ELSE copy
           h1 == Append(h, copy2)
       IN [heap |-> [h1 EXCEPT ![parent].dependencies = MapSet(@, copy2.name, clone)],
           node |-> clone,
           written |-> IF selfRef THEN {clone, parent} ELSE {parent}]

RECURSIVE addHoistedDependencies(_, _, _, _), addHoistedDepsOf(_, _, _, _, _), addHoistedOwn(_, _, _, _, _)
\* getHoistedDependencies; st = [hoistedDependencies, seenNodes]
addHoistedOwn(h, rootNode, st, deps, i) ==
  IF i > Len(deps) THEN st
  ELSE addHoistedOwn(h, rootNode,
         IF ~MapHas(h[rootNode].dependencies, h[deps[i]].name)
         THEN [st EXCEPT !.hoistedDependencies = MapSet(@, h[deps[i]].name, deps[i])]
         ELSE st,
         deps, i + 1)
addHoistedDependencies(h, rootNode, st, node) ==
  IF node \in st.seenNodes THEN st
  ELSE addHoistedDepsOf(h, rootNode,
         addHoistedOwn(h, rootNode, [st EXCEPT !.seenNodes = @ \cup {node}],
                       MapValues(h[node].hoistedDependencies), 1),
         RegularDeps(h, node), 1)
addHoistedDepsOf(h, rootNode, st, deps, i) ==
  IF i > Len(deps) THEN st
  ELSE addHoistedDepsOf(h, rootNode, addHoistedDependencies(h, rootNode, st, deps[i]), deps, i + 1)

getHoistedDependencies(h, rootNode) ==
  addHoistedDependencies(h, rootNode, [hoistedDependencies |-> <<>>, seenNodes |-> {}],
                         rootNode).hoistedDependencies

getPopularityKey(h, node) == h[node].name \o <<"@">> \o h[node].ident

RECURSIVE addParent(_, _, _, _), addParentDeps(_, _, _, _, _)
\* buildPopularityMap; st = [popularityMap, seenNodes]
addParent(h, st, parentNode, node) ==
  LET isSeen == node \in st.seenNodes
      key == getPopularityKey(h, node)
      parents == IF MapHas(st.popularityMap, key) THEN MapGet(st.popularityMap, key) ELSE {}
      st1 == [st EXCEPT !.popularityMap = MapSet(@, key, parents \cup {h[parentNode].ident})]
  IN IF ~isSeen
     THEN addParentDeps(h, [st1 EXCEPT !.seenNodes = @ \cup {node}], node, RegularDeps(h, node), 1)
     ELSE st1
addParentDeps(h, st, node, deps, i) ==
  IF i > Len(deps) THEN st
  ELSE addParentDeps(h, addParent(h, st, node, deps[i]), node, deps, i + 1)

buildPopularityMap(h, rootNode) ==
  addParentDeps(h, [popularityMap |-> <<>>, seenNodes |-> {rootNode}],
                rootNode, RegularDeps(h, rootNode), 1).popularityMap

RECURSIVE SortBySizeDesc(_, _, _)
\* Array.prototype.sort with (key1, key2) => size(key2) - size(key1): stable
SortBySizeDesc(keyList, popularityMap, size) ==
  IF size < 0 THEN <<>>
  ELSE SelectSeq(keyList, LAMBDA key : Cardinality(MapGet(popularityMap, key)) = size)
         \o SortBySizeDesc(keyList, popularityMap, size - 1)

RECURSIVE identMapPinned(_, _, _, _), identMapAdd(_, _, _, _, _)
identMapPinned(h, rootNode, identMap, i) ==
  LET deps == MapValues(h[rootNode].dependencies)
  IN IF i > Len(deps) THEN identMap
     ELSE identMapPinned(h, rootNode,
            IF ~Has(h[rootNode].peerNames, h[deps[i]].name)
            THEN MapSet(identMap, h[deps[i]].name, <<h[deps[i]].ident>>)
            ELSE identMap,
            i + 1)
identMapAdd(h, rootNode, identMap, keyList, i) ==
  IF i > Len(keyList) THEN identMap
  ELSE LET key == keyList[i]
           name == Substring(key, 0, IndexOf(key, "@", 1))
           ident == SubstringFrom(key, Len(name) + 1)
           idents == IF MapHas(identMap, name) THEN MapGet(identMap, name) ELSE <<>>
       IN identMapAdd(h, rootNode,
            IF ~Has(h[rootNode].peerNames, name)
            THEN MapSet(identMap, name, SetAdd(idents, ident))
            ELSE identMap,
            keyList, i + 1)

getHoistIdentMap(h, rootNode, popularityMap) ==
  LET pinned == identMapPinned(h, rootNode,
                  <<[k |-> h[rootNode].name, v |-> <<h[rootNode].ident>>, live |-> TRUE]>>, 1)
      keyList == SortBySizeDesc(MapKeys(popularityMap), popularityMap, Len(h))
  IN identMapAdd(h, rootNode, pinned, keyList, 1)

RECURSIVE addDep(_, _, _, _), addDepPeers(_, _, _, _, _)
\* getSortedRegularDependencies; st = [dependencies, seenDeps]
addDep(h, node, st, dep) ==
  IF dep \in st.seenDeps THEN st
  ELSE LET st1 == addDepPeers(h, node, [st EXCEPT !.seenDeps = @ \cup {dep}], h[dep].peerNames, 1)
       IN [st1 EXCEPT !.dependencies = SetAdd(@, dep)]
addDepPeers(h, node, st, peerNames, i) ==
  IF i > Len(peerNames) THEN st
  ELSE LET peerName == peerNames[i]
           hasPeerDep == /\ ~Has(h[node].peerNames, peerName)
                         /\ MapHas(h[node].dependencies, peerName)
                         /\ ~Has(st.dependencies, MapGet(h[node].dependencies, peerName))
       IN addDepPeers(h, node,
            IF hasPeerDep THEN addDep(h, node, st, MapGet(h[node].dependencies, peerName)) ELSE st,
            peerNames, i + 1)

RECURSIVE sortedDepsFrom(_, _, _, _)
sortedDepsFrom(h, node, dependencies, i) ==
  LET deps == MapValues(h[node].dependencies)
  IN IF i > Len(deps) THEN dependencies
     ELSE sortedDepsFrom(h, node,
            IF ~Has(h[node].peerNames, h[deps[i]].name)
            THEN addDep(h, node, [dependencies |-> dependencies, seenDeps |-> {}], deps[i]).dependencies
            ELSE dependencies,
            i + 1)

getSortedRegularDependencies(h, node) == sortedDepsFrom(h, node, <<>>, 1)

----------------------------------------------------------------------------
(* The hoist planner *)

NoReason == <<"null">>

RECURSIVE nameFilledByButLast(_, _, _, _)
\* the loop of getNodeHoistInfo over the ancestors, stopping one ancestor early
nameFilledByButLast(h, nodePath, node, idx) ==
  IF idx > Len(nodePath) - 2 THEN 0
  ELSE LET parent == nodePath[idx]
           deps == h[parent].dependencies
       IN IF MapHas(deps, h[node].name) /\ h[MapGet(deps, h[node].name)].ident # h[node].ident
          THEN parent
          ELSE nameFilledByButLast(h, nodePath, node, idx + 1)

RECURSIVE nameFilledBy(_, _, _, _)
\* the loop of getNodeHoistInfo over the ancestors between the root and the parent:
\* the first of them holding another ident under the node's name (0: none)
nameFilledBy(h, nodePath, node, idx) ==
  IF idx > Len(nodePath) - 1 THEN 0
  ELSE LET parent == nodePath[idx]
           deps == h[parent].dependencies
       IN IF MapHas(deps, h[node].name) /\ h[MapGet(deps, h[node].name)].ident # h[node].ident
          THEN parent
          ELSE nameFilledBy(h, nodePath, node, idx + 1)

RECURSIVE peerNamesAt(_, _, _, _, _, _)
\* the inner loop over checkList at one ancestor;
\* st = [checkList, dependsOn, isNull, arePeerDepsSatisfied, reason, reasonRoot]
peerNamesAt(h, nodePath, idx, st, names, i) ==
  IF i > Len(names) THEN st
  ELSE LET name == names[i]
           parent == nodePath[idx]
       IN IF Has(h[parent].peerNames, name) /\ MapHas(h[parent].originalDependencies, name)
          THEN peerNamesAt(h, nodePath, idx, st, names, i + 1)
          ELSE IF MapHas(h[parent].dependencies, name)
               THEN LET parentDepNode == MapGet(h[parent].dependencies, name)
                    IN IF idx = Len(nodePath)
                       THEN peerNamesAt(h, nodePath, idx,
                              [st EXCEPT !.arePeerDepsSatisfied = FALSE,
                                         !.dependsOn = SetAdd(@, parentDepNode),
                                         !.checkList = SelectSeq(@, LAMBDA x : x # name)],
                              names, i + 1)
                       ELSE [st EXCEPT !.arePeerDepsSatisfied = FALSE,
                                       !.isNull = TRUE,
                                       !.reason = <<"peer dependency", h[parentDepNode].locator,
                                                    "from parent", h[parent].locator,
                                                    "was not hoisted to", st.reasonRoot>>]
               ELSE peerNamesAt(h, nodePath, idx,
                      [st EXCEPT !.checkList = SelectSeq(@, LAMBDA x : x # name)], names, i + 1)

RECURSIVE peerParents(_, _, _, _)
\* the loop of getNodeHoistInfo from the parent up to the node below the root
peerParents(h, nodePath, idx, st) ==
  IF idx < 2 THEN st
  ELSE LET st1 == peerNamesAt(h, nodePath, idx, st, st.checkList, 1)
       IN IF ~st1.arePeerDepsSatisfied THEN st1
          ELSE peerParents(h, nodePath, idx - 1, st1)

\* getNodeHoistInfo; nodePath is [...nodePath, parentNode], nodePath[1] is the hoist root
getNodeHoistInfo(h, rootPath, nodePath, node, hoistedDependencies, hoistIdents, hoistIdentMap, outputReason) ==
  LET parentNode == nodePath[Len(nodePath)]
      name == h[node].name
      isSelfReference == h[node].ident = h[parentNode].ident
      hasHoistedIdent == MapHas(hoistIdents, name)
      isHoistable0 == hasHoistedIdent /\ MapGet(hoistIdents, name) = h[node].ident /\ ~isSelfReference
      reason0 == IF outputReason /\ ~isHoistable0 /\ hasHoistedIdent
                 THEN <<"filled by", MapGet(hoistIdentMap, name)[1], "at", rootPath>>
                 ELSE NoReason
      hasHoistedDep == MapHas(hoistedDependencies, name)
      nameFree == ~hasHoistedDep \/ h[MapGet(hoistedDependencies, name)].ident = h[node].ident
      filler == IF nameFree THEN nameFilledBy(h, nodePath, node, 2) ELSE 0
      isNameAvailable == nameFree /\ filler = 0
      reason1 == IF ~isHoistable0 \/ ~outputReason THEN reason0
                 ELSE IF ~nameFree
                      THEN <<"filled by", h[MapGet(hoistedDependencies, name)].locator, "at", rootPath>>
                      ELSE IF filler # 0
                           THEN <<"filled by", h[MapGet(h[filler].dependencies, name)].locator,
                                  "at", h[filler].locator>>
                           ELSE reason0
      isHoistable1 == isHoistable0 /\ isNameAvailable
      peers == IF isHoistable1
               THEN peerParents(h, nodePath, Len(nodePath),
                      [checkList |-> h[node].peerNames, dependsOn |-> <<>>, isNull |-> FALSE,
                       arePeerDepsSatisfied |-> TRUE, reason |-> reason1,
                       reasonRoot |-> rootPath])
               ELSE [checkList |-> <<>>, dependsOn |-> <<>>, isNull |-> FALSE,
                     arePeerDepsSatisfied |-> TRUE, reason |-> reason1,
                     reasonRoot |-> rootPath]
      isHoistable2 == isHoistable1 /\ peers.arePeerDepsSatisfied
  IN IF ~peers.isNull /\ Len(peers.dependsOn) > 0
     THEN [isHoistable |-> "DEPENDS", dependsOn |-> peers.dependsOn, reason |-> NoReason]
     ELSE [isHoistable |-> IF isHoistable2 THEN "YES" ELSE "NO", dependsOn |-> <<>>,
           reason |-> IF outputReason THEN peers.reason ELSE NoReason]

----------------------------------------------------------------------------
(* selfCheck *)

RECURSIVE overlayDeps(_, _, _, _, _)
\* new Map(parentDeps) with the node's own non-peer dependencies set over it
overlayDeps(h, node, dependencies, deps, i) ==
  IF i > Len(deps) THEN dependencies
  ELSE overlayDeps(h, node,
         IF ~Has(h[node].peerNames, h[deps[i]].name)
         THEN MapSet(dependencies, h[deps[i]].name, deps[i])
         ELSE dependencies,
         deps, i + 1)

RECURSIVE checkOrigDeps(_, _, _, _, _, _, _)
\* the loop of checkNode over originalDependencies: the log entries it pushes
checkOrigDeps(h, node, parents, parentDeps, dependencies, origDeps, i) ==
  IF i > Len(origDeps) THEN <<>>
  ELSE LET origDep == origDeps[i]
           name == h[origDep].name
           hasDep == MapHas(dependencies, name)
           path == Append(parents, node)
           entry ==
             IF Has(h[node].peerNames, name)
             THEN LET hasParentDep == MapHas(parentDeps, name)
                      differ == IF hasParentDep /\ hasDep
                                THEN MapGet(parentDeps, name) # MapGet(dependencies, name)
                                ELSE hasParentDep # hasDep
                  IN IF differ THEN <<[kind |-> "broken peer promise", at |-> path, name |-> name]>>
                     ELSE <<>>
             ELSE IF ~hasDep
                  THEN <<[kind |-> "broken require promise: not found", at |-> path, name |-> name]>>
                  ELSE IF h[MapGet(dependencies, name)].ident # h[origDep].ident
                       THEN <<[kind |-> "broken require promise", at |-> path, name |-> name]>>
                       ELSE <<>>
       IN entry \o checkOrigDeps(h, node, parents, parentDeps, dependencies, origDeps, i + 1)

RECURSIVE checkNode(_, _, _, _), checkNodeDeps(_, _, _, _, _, _)
\* checkNode; st = [seenNodes, parents, log]
checkNode(h, st, node, parentDeps) ==
  IF node \in st.seenNodes THEN st
  ELSE LET dependencies == overlayDeps(h, node, MapCopy(parentDeps),
                                       MapValues(h[node].dependencies), 1)
           found == checkOrigDeps(h, node, st.parents, parentDeps, dependencies,
                                  MapValues(h[node].originalDependencies), 1)
           st1 == [seenNodes |-> st.seenNodes \cup {node},
                   parents |-> Append(st.parents, node),
                   log |-> st.log \o found]
           st2 == checkNodeDeps(h, st1, node, dependencies, MapValues(h[node].dependencies), 1)
       IN [st2 EXCEPT !.parents = SelectSeq(@, LAMBDA x : x # node)]
checkNodeDeps(h, st, node, dependencies, deps, i) ==
  IF i > Len(deps) THEN st
  ELSE checkNodeDeps(h,
         IF ~Has(h[node].peerNames, h[deps[i]].name)
         THEN checkNode(h, st, deps[i], dependencies)
         ELSE st,
         node, dependencies, deps, i + 1)

\* selfCheck: the log (the source joins it into a string, empty iff the log is)
selfCheck(h, tree) ==
  checkNode(h, [seenNodes |-> {}, parents |-> <<>>, log |-> <<>>], tree, h[tree].dependencies).log

----------------------------------------------------------------------------
(* shrinkTree *)

RECURSIVE shrinkAddNode(_, _, _, _, _), shrinkAddDeps(_, _, _, _, _, _)
\* addNode of shrinkTree; st = [out, seenNodes]
shrinkAddNode(h, st, node, parentWorkNode, parentNode) ==
  LET isSeen == node \in st.seenNodes
      fresh == parentWorkNode # node
      resultNode == IF fresh THEN Len(st.out) + 1 ELSE parentNode
      out1 == IF fresh
              THEN Append(st.out, [name |-> h[node].name,
                                   identName |-> getIdentName(h[node].locator),
                                   references |-> h[node].references,
                                   dependencies |-> <<>>])
              ELSE st.out
      out2 == [out1 EXCEPT ![parentNode].dependencies = SetAdd(@, resultNode)]
  IN IF ~isSeen
     THEN LET st1 == shrinkAddDeps(h, [out |-> out2, seenNodes |-> st.seenNodes \cup {node}],
                                   node, resultNode, MapValues(h[node].dependencies), 1)
          IN [st1 EXCEPT !.seenNodes = @ \ {node}]
     ELSE [st EXCEPT !.out = out2]
shrinkAddDeps(h, st, node, resultNode, deps, i) ==
  IF i > Len(deps) THEN st
  ELSE shrinkAddDeps(h,
         IF ~Has(h[node].peerNames, h[deps[i]].name)
         THEN shrinkAddNode(h, st, deps[i], node, resultNode)
         ELSE st,
         node, resultNode, deps, i + 1)

\* shrinkTree: the HoisterResult objects; the returned treeCopy is object 1
shrinkTree(h, tree) ==
  LET treeCopy == [name |-> h[tree].name,
                   identName |-> getIdentName(h[tree].locator),
                   references |-> h[tree].references,
                   dependencies |-> <<>>]
      deps == MapValues(h[tree].dependencies)
  IN LET RECURSIVE top(_, _)
         top(st, i) == IF i > Len(deps) THEN st
                       ELSE top(shrinkAddNode(h, st, deps[i], tree, 1), i + 1)
     IN top([out |-> <<treeCopy>>, seenNodes |-> {tree}], 1).out

----------------------------------------------------------------------------
(* The machine: one run of hoist as a record                               *)
(*   m = [options, heap, stack, rootNodePath, status, output, error, trail] *)
(* Every step below is a function from m to the next m, so that a whole    *)
(* run can also be computed (Run) and two runs compared.                   *)

\* an optional value is <<>> (undefined) or <<v>>
Undefined == <<>>
\* a number or undefined as a condition
TruthyNumber(x) == x # Undefined /\ x[1] # 0
\* a boolean or undefined as a condition
TruthyBoolean(x) == x # Undefined /\ x[1]
\* process.env.X as a condition: the decimal string of a number is not empty
TruthyString(x) == x # Undefined

\* the tree root of the work tree (treeCopy)
Tree == 1

Top(m) == m.stack[Len(m.stack)]
SetTop(m, f) == [m EXCEPT !.stack[Len(m.stack)] = f]
Push(m, f) == [m EXCEPT !.stack = Append(@, f)]
Pop(m) == [m EXCEPT !.stack = SubSeq(@, 1, Len(@) - 1)]

\* the frame of the enclosing hoistTo / hoistGraph call
FrameIdx(m, op) == CHOOSE i \in 1..Len(m.stack) :
                     /\ m.stack[i].op = op
                     /\ \A j \in (i + 1)..Len(m.stack) : m.stack[j].op # op
ToFrame(m) == m.stack[FrameIdx(m, "hoistTo")]
GraphFrame(m) == m.stack[FrameIdx(m, "hoistGraph")]

hoistToFrame(rootNode) ==
  [op |-> "hoistTo", pc |-> "enter", rootNode |-> rootNode, seenNodes |-> {},
   hoistIdentMap |-> <<>>, hoistIdents |-> <<>>, hoistedDependencies |-> <<>>,
   wasStateChanged |-> FALSE, cursor |-> 0, dependency |-> 0]

\* the step has called set, delete or add on a map or set of each of these work nodes
Wrote(m, nodes) ==
  IF nodes = {} THEN m
  ELSE [m EXCEPT !.trail.written = nodes, !.trail.writes = @ + 1]

\* hoist, lines 101-111
HoistStart(tree, o, e, root) ==
  LET debugLevel == IF TruthyNumber(o.debugLevel) THEN o.debugLevel[1]
                    ELSE IF TruthyString(e) THEN e[1] ELSE -1
      check == TruthyBoolean(o.check) \/ debugLevel >= 9
      treeCopy == cloneTree(tree, root)
  IN [options |-> [check |-> check, debugLevel |-> debugLevel],
      heap |-> treeCopy,
      stack |-> <<hoistToFrame(Tree)>>,
      rootNodePath |-> <<treeCopy[Tree].locator>>,
      status |-> "hoisting",
      output |-> <<>>,
      error |-> <<>>,
      trail |-> [roots |-> <<>>, shifted |-> FALSE, written |-> {}, writes |-> 0]]

RECURSIVE headsOf(_, _)
\* new Map(entries.map(([k, v]) => [k, v[0]]))
headsOf(identMap, i) ==
  IF i > Len(identMap) THEN <<>>
  ELSE <<[k |-> identMap[i].k, v |-> identMap[i].v[1], live |-> TRUE]>> \o headsOf(identMap, i + 1)

\* hoistTo, lines 303-313
HoistToEnter(m) ==
  LET f == Top(m)
      rootNode == f.rootNode
      popularityMap == buildPopularityMap(m.heap, rootNode)
      hoistIdentMap == getHoistIdentMap(m.heap, rootNode, popularityMap)
  IN IF rootNode \in f.seenNodes THEN Pop(m)
     ELSE [SetTop(m, [f EXCEPT !.pc = "do",
                               !.seenNodes = @ \cup {rootNode},
                               !.hoistIdentMap = hoistIdentMap,
                               !.hoistIdents = headsOf(MapEntries(hoistIdentMap), 1),
                               !.hoistedDependencies =
                                  IF rootNode = Tree THEN <<>>
                                  ELSE getHoistedDependencies(m.heap, rootNode)])
           EXCEPT !.trail.roots = Append(@, rootNode)]

\* hoistTo, line 317 and hoistGraph, lines 422, 502-503
HoistToCallGraph(m) ==
  LET f == Top(m)
  IN Push(SetTop(m, [f EXCEPT !.pc = "shift"]),
          [op |-> "hoistGraph", pc |-> "do", seenNodes |-> {}, newNodes |-> <<>>,
           nextNewNodes |-> getSortedRegularDependencies(m.heap, f.rootNode), i |-> 1])

RECURSIVE shiftIdents(_, _, _, _)
\* the loop of lines 319-326 without idents.shift(): the tried ident stays first
shiftIdentsKeepingHead(h, rootNode, st, i) ==
  IF i > Len(st.hoistIdentMap) THEN st
  ELSE LET name == st.hoistIdentMap[i].k
           idents == st.hoistIdentMap[i].v
       IN shiftIdents(h, rootNode,
            IF Len(idents) > 1 /\ ~MapHas(h[rootNode].dependencies, name)
            THEN [hoistIdentMap |-> st.hoistIdentMap,
                  hoistIdents |-> MapSet(MapDelete(st.hoistIdents, name), name, idents[1]),
                  wasStateChanged |-> TRUE]
            ELSE st,
            i + 1)

\* hoistTo, lines 319-326; st = [hoistIdentMap, hoistIdents, wasStateChanged]
shiftIdents(h, rootNode, st, i) ==
  IF i > Len(st.hoistIdentMap) THEN st
  ELSE LET name == st.hoistIdentMap[i].k
           idents == st.hoistIdentMap[i].v
       IN shiftIdents(h, rootNode,
            IF Len(idents) > 1 /\ ~MapHas(h[rootNode].dependencies, name)
            THEN [hoistIdentMap |-> [st.hoistIdentMap EXCEPT ![i].v = Tail(idents)],
                  hoistIdents |-> MapSet(MapDelete(st.hoistIdents, name), name, Tail(idents)[1]),
                  wasStateChanged |-> TRUE]
            ELSE st,
            i + 1)

\* hoistTo, lines 318-327, after hoistGraph has returned
HoistToShift(m) ==
  LET f == Top(m)
      st == shiftIdents(m.heap, f.rootNode,
                        [hoistIdentMap |-> f.hoistIdentMap, hoistIdents |-> f.hoistIdents,
                         wasStateChanged |-> FALSE], 1)
  IN [SetTop(m, [f EXCEPT !.hoistIdentMap = st.hoistIdentMap,
                          !.hoistIdents = st.hoistIdents,
                          !.wasStateChanged = st.wasStateChanged,
                          !.pc = IF st.wasStateChanged THEN "do" ELSE "recurse",
                          !.cursor = 0])
        EXCEPT !.trail.shifted = @ \/ st.wasStateChanged]

\* the next live slot of a Map after `cursor` (0: the iteration is over)
NextSlot(map, cursor) ==
  LET later == {i \in LiveIdx(map) : i > cursor}
  IN IF later = {} THEN 0 ELSE CHOOSE i \in later : \A j \in later : i <= j

\* hoistTo, lines 329-335: one turn of the loop over rootNode.dependencies.values()
HoistToRecurse(m) ==
  LET f == Top(m)
      deps == m.heap[f.rootNode].dependencies
      next == NextSlot(deps, f.cursor)
      dependency == deps[next].v
  IN IF next = 0 THEN Pop(m)
     ELSE IF /\ ~Has(m.heap[f.rootNode].peerNames, m.heap[dependency].name)
             /\ ~Has(m.rootNodePath, m.heap[dependency].locator)
          THEN Push([SetTop(m, [f EXCEPT !.cursor = next, !.dependency = dependency,
                                         !.pc = "afterRecurse"])
                       EXCEPT !.rootNodePath = Append(@, m.heap[dependency].locator)],
                    hoistToFrame(dependency))
          ELSE SetTop(m, [f EXCEPT !.cursor = next])

\* hoistTo, line 333
HoistToAfterRecurse(m) ==
  LET f == Top(m)
  IN [SetTop(m, [f EXCEPT !.pc = "recurse"])
        EXCEPT !.rootNodePath = SelectSeq(@, LAMBDA l : l # m.heap[f.dependency].locator)]

\* hoistGraph, lines 504-506
HoistGraphDo(m) ==
  LET f == Top(m)
  IN SetTop(m, [f EXCEPT !.newNodes = f.nextNewNodes, !.nextNewNodes = <<>>,
                         !.i = 1, !.pc = "for"])

\* hoistGraph, lines 507-513: one turn of the loop over newNodes
HoistGraphFor(m) ==
  LET f == Top(m)
      rootNode == ToFrame(m).rootNode
      dep == f.newNodes[f.i]
      m1 == SetTop(m, [f EXCEPT !.i = @ + 1])
      d == decoupleGraphNode(m.heap, rootNode, dep)
  IN IF m.heap[dep].locator = m.heap[rootNode].locator THEN m1
     ELSE Push(Wrote([m1 EXCEPT !.heap = d.heap],
                     d.written),
               [op |-> "hoistNodeDependencies", pc |-> "enter",
                nodePath |-> <<rootNode>>, locatorPath |-> <<m.heap[rootNode].locator>>,
                parentNode |-> d.node,
                hoistInfos |-> <<>>, classified |-> <<>>, unhoistableNodes |-> <<>>,
                hoisted |-> <<>>, children |-> <<>>, i |-> 1])

\* hoistGraph, line 514
HoistGraphWhile(m) ==
  LET f == Top(m)
  IN IF Len(f.nextNewNodes) > 0 THEN SetTop(m, [f EXCEPT !.pc = "do"])
     ELSE Pop(m)

----------------------------------------------------------------------------
(* hoistNodeDependencies *)

RECURSIVE addDependants(_, _, _, _, _)
\* lines 434-438: subDependency becomes a dependant of every node it depends on
addDependants(h, dependantTree, subDependency, dependsOn, i) ==
  IF i > Len(dependsOn) THEN dependantTree
  ELSE LET name == h[dependsOn[i]].name
           nodeDependants == IF MapHas(dependantTree, name) THEN MapGet(dependantTree, name) ELSE <<>>
       IN addDependants(h,
            MapSet(dependantTree, name, SetAdd(nodeDependants, h[subDependency].name)),
            subDependency, dependsOn, i + 1)

RECURSIVE classifyDeps(_, _, _, _, _, _)
\* lines 430-440; st = [hoistInfos, dependantTree]
classifyDeps(m, nodePath, outputReason, st, subDeps, i) ==
  IF i > Len(subDeps) THEN st
  ELSE LET t == ToFrame(m)
           hoistInfo == getNodeHoistInfo(m.heap, m.rootNodePath, nodePath, subDeps[i],
                                         t.hoistedDependencies, t.hoistIdents, t.hoistIdentMap,
                                         outputReason)
       IN classifyDeps(m, nodePath, outputReason,
            [hoistInfos |-> MapSet(st.hoistInfos, subDeps[i], hoistInfo),
             dependantTree |-> IF hoistInfo.isHoistable = "DEPENDS"
                               THEN addDependants(m.heap, st.dependantTree, subDeps[i],
                                                  hoistInfo.dependsOn, 1)
                               ELSE st.dependantTree],
            subDeps, i + 1)

RECURSIVE addUnhoistableNode(_, _, _, _, _, _), addUnhoistableDependants(_, _, _, _, _, _, _)
\* addUnhoistableNode without the walk over the node's dependants
addUnhoistableNodeAlone(h, parentNode, dependantTree, st, node, hoistInfo) ==
  IF Has(st.unhoistableNodes, node) THEN st
  ELSE [unhoistableNodes |-> Append(st.unhoistableNodes, node),
        hoistInfos |-> MapSet(st.hoistInfos, node, hoistInfo)]

\* lines 443-451; st = [unhoistableNodes, hoistInfos]
addUnhoistableNode(h, parentNode, dependantTree, st, node, hoistInfo) ==
  IF Has(st.unhoistableNodes, node) THEN st
  ELSE addUnhoistableDependants(h, parentNode, dependantTree,
         [unhoistableNodes |-> Append(st.unhoistableNodes, node),
          hoistInfos |-> MapSet(st.hoistInfos, node, hoistInfo)],
         IF MapHas(dependantTree, h[node].name) THEN MapGet(dependantTree, h[node].name) ELSE <<>>,
         1, hoistInfo)
addUnhoistableDependants(h, parentNode, dependantTree, st, names, i, hoistInfo) ==
  IF i > Len(names) THEN st
  ELSE addUnhoistableDependants(h, parentNode, dependantTree,
         addUnhoistableNode(h, parentNode, dependantTree, st,
                            MapGet(h[parentNode].dependencies, names[i]), hoistInfo),
         names, i + 1, hoistInfo)

RECURSIVE collectUnhoistable(_, _, _, _, _)
\* lines 453-455
collectUnhoistable(h, parentNode, dependantTree, st, i) ==
  IF i > Len(st.hoistInfos) THEN st
  ELSE collectUnhoistable(h, parentNode, dependantTree,
         IF st.hoistInfos[i].v.isHoistable = "NO"
         THEN addUnhoistableNode(h, parentNode, dependantTree, st,
                                 st.hoistInfos[i].k, st.hoistInfos[i].v)
         ELSE st,
         i + 1)

\* lines 459-474: one node leaves parentNode for rootNode; st = [heap, nextNewNodes]
hoistNode(st, rootNode, parentNode, node) ==
  LET h == st.heap
      name == h[node].name
      h1 == [h EXCEPT ![parentNode].dependencies = MapDelete(@, name)]
      h2 == [h1 EXCEPT ![parentNode].hoistedDependencies = MapSet(@, name, node)]
      h3 == [h2 EXCEPT ![parentNode].reasons = MapDelete(@, name)]
      hasHoistedNode == MapHas(h3[rootNode].dependencies, name)
      hoistedNode == MapGet(h3[rootNode].dependencies, name)
  IN IF ~hasHoistedNode
     THEN IF h3[rootNode].ident # h3[node].ident
          THEN [heap |-> [h3 EXCEPT ![rootNode].dependencies = MapSet(@, name, node)],
                nextNewNodes |-> SetAdd(st.nextNewNodes, node),
                written |-> st.written \cup {parentNode, rootNode}]
          ELSE [st EXCEPT !.heap = h3, !.written = @ \cup {parentNode}]
     ELSE [st EXCEPT !.heap = [h3 EXCEPT ![hoistedNode].references = @ \cup h3[node].references],
                     !.written = @ \cup {parentNode} \cup
                                   (IF h3[node].references = {} THEN {} ELSE {hoistedNode})]

RECURSIVE hoistNodes(_, _, _, _, _, _)
\* lines 457-476
hoistNodes(st, rootNode, parentNode, nodes, unhoistableNodes, i) ==
  IF i > Len(nodes) THEN st
  ELSE hoistNodes(IF ~Has(unhoistableNodes, nodes[i])
                  THEN hoistNode(st, rootNode, parentNode, nodes[i])
                  ELSE st,
                  rootNode, parentNode, nodes, unhoistableNodes, i + 1)

\* lines 478-485, with the nodes classified (cl), the unhoistable ones marked (un)
\* and the others hoisted (done): the check, then the children to go through
hoistNodeDependenciesCheck(m, cl, un, done, checkLog) ==
  LET f == Top(m)
      gi == FrameIdx(m, "hoistGraph")
      nodes == MapKeys(un.hoistInfos)
      m1 == Wrote([m EXCEPT !.heap = done.heap, !.stack[gi].nextNewNodes = done.nextNewNodes],
                  done.written)
  IN IF Len(checkLog) > 0
     THEN [m1 EXCEPT !.status = "thrown", !.stack = <<>>, !.error = checkLog]
     ELSE SetTop(m1, [f EXCEPT
            !.pc = "children",
            !.classified = cl.hoistInfos,
            !.hoistInfos = un.hoistInfos,
            !.unhoistableNodes = un.unhoistableNodes,
            !.hoisted = SelectSeq(nodes, LAMBDA n : ~Has(un.unhoistableNodes, n)),
            !.children = getSortedRegularDependencies(done.heap, f.parentNode),
            !.i = 1])

\* lines 478-479
hoistNodeDependenciesHoisted(m, cl, un, done) ==
  hoistNodeDependenciesCheck(m, cl, un, done,
    IF m.options.check THEN selfCheck(done.heap, Tree) ELSE <<>>)

\* lines 457-476
hoistNodeDependenciesMarked(m, cl, un) ==
  hoistNodeDependenciesHoisted(m, cl, un,
    hoistNodes([heap |-> m.heap, nextNewNodes |-> GraphFrame(m).nextNewNodes, written |-> {}],
               ToFrame(m).rootNode, Top(m).parentNode,
               MapKeys(un.hoistInfos), un.unhoistableNodes, 1))

\* lines 442-455
hoistNodeDependenciesClassified(m, cl) ==
  hoistNodeDependenciesMarked(m, cl,
    collectUnhoistable(m.heap, Top(m).parentNode, cl.dependantTree,
                       [unhoistableNodes |-> <<>>, hoistInfos |-> cl.hoistInfos], 1))

\* hoistNodeDependencies, lines 425-485
HoistNodeDependenciesEnter(m) ==
  LET f == Top(m)
  IN IF f.parentNode \in GraphFrame(m).seenNodes THEN Pop(m)
     ELSE hoistNodeDependenciesClassified(m,
            classifyDeps(m, Append(f.nodePath, f.parentNode), m.options.debugLevel >= 2,
                         [hoistInfos |-> <<>>, dependantTree |-> <<>>],
                         getSortedRegularDependencies(m.heap, f.parentNode), 1))

\* lines 486-495: one turn of the loop over children, up to the recursive call
HoistNodeDependenciesChild(m) ==
  LET f == Top(m)
      gi == FrameIdx(m, "hoistGraph")
      node == f.children[f.i]
      hoistInfo == MapGet(f.hoistInfos, node)
      h1 == IF hoistInfo.isHoistable = "NO"
            THEN [m.heap EXCEPT ![f.parentNode].reasons =
                    MapSet(@, m.heap[node].name, hoistInfo.reason)]
            ELSE m.heap
      d == decoupleGraphNode(h1, f.parentNode, node)
  IN IF Has(f.unhoistableNodes, node) /\ IndexOf(f.locatorPath, m.heap[node].locator, 0) < 0
     THEN Push(Wrote([SetTop(m, [f EXCEPT !.pc = "afterCall"])
                        EXCEPT !.heap = d.heap,
                               !.stack[gi].seenNodes = @ \cup {f.parentNode}],
                     d.written \cup (IF hoistInfo.isHoistable = "NO"
                                      THEN {f.parentNode} ELSE {})),
               [op |-> "hoistNodeDependencies", pc |-> "enter",
                nodePath |-> Append(f.nodePath, f.parentNode),
                locatorPath |-> Append(f.locatorPath, m.heap[f.parentNode].locator),
                parentNode |-> d.node,
                hoistInfos |-> <<>>, classified |-> <<>>, unhoistableNodes |-> <<>>,
                hoisted |-> <<>>, children |-> <<>>, i |-> 1])
     ELSE SetTop(m, [f EXCEPT !.i = @ + 1])

\* line 497, after the recursive call has returned
HoistNodeDependenciesAfterCall(m) ==
  LET f == Top(m)
      gi == FrameIdx(m, "hoistGraph")
  IN [SetTop(m, [f EXCEPT !.pc = "children", !.i = @ + 1])
        EXCEPT !.stack[gi].seenNodes = @ \ {f.parentNode}]

\* hoist, lines 116-126
HoistFinish(m) ==
  LET checkLog == IF m.options.debugLevel >= 1 THEN selfCheck(m.heap, Tree) ELSE <<>>
  IN IF Len(checkLog) > 0
     THEN [m EXCEPT !.status = "thrown", !.error = checkLog]
     ELSE [m EXCEPT !.status = "returned", !.output = shrinkTree(m.heap, Tree)]

----------------------------------------------------------------------------
(* Which step is next, and a whole run *)

PcOf(m) ==
  IF m.status # "hoisting" THEN "done"
  ELSE IF Len(m.stack) = 0 THEN "finish"
  ELSE LET f == Top(m)
       IN CASE f.op = "hoistTo" -> "hoistTo." \o f.pc
            [] f.op = "hoistGraph" ->
                 IF f.pc = "do" THEN "hoistGraph.do"
                 ELSE IF f.i <= Len(f.newNodes) THEN "hoistGraph.for" ELSE "hoistGraph.while"
            [] f.op = "hoistNodeDependencies" ->
                 IF f.pc = "children"
                 THEN IF f.i <= Len(f.children) THEN "hoistNodeDependencies.child"
                      ELSE "hoistNodeDependencies.return"
                 ELSE "hoistNodeDependencies." \o f.pc

Step(m) ==
  LET pc == PcOf(m)
  IN CASE pc = "finish" -> HoistFinish(m)
       [] pc = "hoistTo.enter" -> HoistToEnter(m)
       [] pc = "hoistTo.do" -> HoistToCallGraph(m)
       [] pc = "hoistTo.shift" -> HoistToShift(m)
       [] pc = "hoistTo.recurse" -> HoistToRecurse(m)
       [] pc = "hoistTo.afterRecurse" -> HoistToAfterRecurse(m)
       [] pc = "hoistGraph.do" -> HoistGraphDo(m)
       [] pc = "hoistGraph.for" -> HoistGraphFor(m)
       [] pc = "hoistGraph.while" -> HoistGraphWhile(m)
       [] pc = "hoistNodeDependencies.enter" -> HoistNodeDependenciesEnter(m)
       [] pc = "hoistNodeDependencies.child" -> HoistNodeDependenciesChild(m)
       [] pc = "hoistNodeDependencies.afterCall" -> HoistNodeDependenciesAfterCall(m)
       [] pc = "hoistNodeDependencies.return" -> Pop(m)
       [] OTHER -> m

RECURSIVE Run(_)
\* the run from m to its end
Run(m) == IF m.status # "hoisting" THEN m ELSE Run(Step(m))

----------------------------------------------------------------------------
(* The inputs: dependency graphs over a fixed set of packages *)

\* the most dependencies one package has in an input graph
MaxDeps == 3

RootPkg == 1

\* [name, identName, reference] of each package: 1 is the workspace root,
\* 2 and 3 are two versions of a, 4 and 5 two instances (plain and virtual) of
\* the same version of b, 6 is a scoped package, 7 an alias, 8 and 9 two versions of e,
\* 10 a virtual instance of the aliased package under its own name
Packages ==
  << [name |-> <<".">>, identName |-> <<".">>, reference |-> <<"workspace:.">>],
     [name |-> <<"a">>, identName |-> <<"a">>, reference |-> <<"npm:1">>],
     [name |-> <<"a">>, identName |-> <<"a">>, reference |-> <<"npm:2">>],
     [name |-> <<"b">>, identName |-> <<"b">>, reference |-> <<"npm:1">>],
     [name |-> <<"b">>, identName |-> <<"b">>, reference |-> <<"virtual:x", "#", "npm:1">>],
     [name |-> <<"@", "s/c">>, identName |-> <<"@", "s/c">>, reference |-> <<"npm:1">>],
     [name |-> <<"d">>, identName |-> <<"dd">>, reference |-> <<"npm:1">>],
     [name |-> <<"e">>, identName |-> <<"e">>, reference |-> <<"npm:1">>],
     [name |-> <<"e">>, identName |-> <<"e">>, reference |-> <<"npm:2">>],
     [name |-> <<"dd">>, identName |-> <<"dd">>, reference |-> <<"virtual:y", "#", "npm:1">>] >>

Pkgs == 1..Len(Packages)

Reg(p) == [to |-> p, peer |-> FALSE]
Peer(p) == [to |-> p, peer |-> TRUE]

\* The dependencies a package may have, in the order it lists them, per family
\* of graphs: an input graph takes some of them.  Family 1 has versions, shared
\* and virtual instances and cycles (through the root too); family 2 has peer
\* dependencies: supplied by the parent, by a higher ancestor, and cyclic; family 3
\* has a version that cannot be hoisted while another version of its name can, and
\* two instances of one ident with different dependencies; family 4 has a cycle
\* through two instances of one ident that go under different names; family 5
\* has a version held below another version of its name: below an ancestor that
\* keeps the other version, and below a hoist root the other version left; family 6
\* has a version of a package held below another version of that package; family 7
\* has a package on a cycle that gets a further dependency after the cycle is closed.
PotentialDeps ==
  << << <<Reg(6), Reg(7), Reg(3)>>,
        <<Reg(2)>>,
        <<>>,
        <<Reg(5)>>,
        <<Reg(4)>>,
        <<Reg(2), Reg(4), Reg(7), Reg(1)>>,
        <<Reg(2), Reg(3), Reg(5)>>,
        <<>>,
        <<>>,
        <<>> >>,
     << <<Reg(6), Reg(3)>>,
        <<>>,
        <<>>,
        <<Peer(8)>>,
        <<>>,
        <<Reg(2), Reg(7)>>,
        <<Peer(2), Reg(2), Reg(4), Reg(8)>>,
        <<Peer(4), Peer(2)>>,
        <<>>,
        <<>> >>,
     << <<Reg(6), Reg(3)>>,
        <<Reg(2)>>,
        <<>>,
        <<>>,
        <<Reg(8)>>,
        <<Reg(2), Reg(7), Reg(9), Reg(4)>>,
        <<Peer(2), Reg(8), Reg(5)>>,
        <<>>,
        <<>>,
        <<>> >>,
     << <<Reg(6), Reg(7)>>,
        <<>>,
        <<>>,
        <<>>,
        <<>>,
        <<Reg(7)>>,
        <<Reg(10)>>,
        <<>>,
        <<>>,
        <<Reg(7)>> >>,
     << <<Reg(6), Reg(3), Reg(9)>>,
        <<>>,
        <<>>,
        <<>>,
        <<>>,
        <<Reg(2), Reg(3), Reg(8), Reg(7)>>,
        <<Peer(8), Reg(3), Reg(2)>>,
        <<>>,
        <<>>,
        <<>> >>,
     << <<Reg(2), Reg(9)>>,
        <<Reg(8), Reg(6)>>,
        <<>>,
        <<>>,
        <<>>,
        <<Peer(8), Reg(3)>>,
        <<>>,
        <<>>,
        <<>>,
        <<>> >>,
     << <<Reg(6), Reg(3), Reg(9)>>,
        <<Reg(7), Reg(8)>>,
        <<>>,
        <<>>,
        <<>>,
        <<Reg(2)>>,
        <<Reg(2)>>,
        <<>>,
        <<>>,
        <<>> >> >>

Families == 1..Len(PotentialDeps)

RECURSIVE SeqOfIdx(_, _, _)
\* the subsequence of s at the indices I
SeqOfIdx(s, I, i) ==
  IF i > Len(s) THEN <<>>
  ELSE (IF i \in I THEN <<s[i]>> ELSE <<>>) \o SeqOfIdx(s, I, i + 1)

DistinctNames(deps) ==
  \A i, j \in 1..Len(deps) : i # j => Packages[deps[i].to].name # Packages[deps[j].to].name

DepChoices(f, p) ==
  {c \in {SeqOfIdx(PotentialDeps[f][p], I, 1) : I \in SUBSET (1..Len(PotentialDeps[f][p]))} :
     Len(c) <= MaxDeps /\ DistinctNames(c)}

inputNode(p, c) ==
  [name |-> Packages[p].name,
   identName |-> Packages[p].identName,
   reference |-> Packages[p].reference,
   dependencies |-> [i \in 1..Len(c) |-> c[i].to],
   peerNames |-> LET ps == SelectSeq(c, LAMBDA d : d.peer)
                 IN [i \in 1..Len(ps) |-> Packages[ps[i].to].name]]

RECURSIVE ReachFrom(_, _)
\* the packages the traversal of cloneTree reaches from the packages in `seen`
ReachFrom(tree, seen) ==
  LET more == seen \cup UNION {Range(tree[p].dependencies) : p \in seen}
  IN IF more = seen THEN seen ELSE ReachFrom(tree, more)

\* the dependency of input node p under `name`: the last one listed, which the
\* Map.set of cloneTree keeps (0: none)
InputDep(tree, p, name) ==
  LET deps == tree[p].dependencies
      hits == {i \in 1..Len(deps) : tree[deps[i]].name = name}
  IN IF hits = {} THEN 0 ELSE deps[CHOOSE i \in hits : \A j \in hits : j <= i]

\* The graphs hoist is given: every package that has dependencies is reached
\* from the root, the root has no peer names, and a package's peer dependency
\* is the very package its parent depends on under that name
WellFormed(tree) ==
  LET reached == ReachFrom(tree, {RootPkg})
  IN /\ \A p \in Pkgs : tree[p].dependencies # <<>> => p \in reached
     /\ tree[RootPkg].peerNames = <<>>
     /\ \A p \in reached : \A q \in Range(tree[p].dependencies) :
          ~Has(tree[p].peerNames, tree[q].name) =>
             \A name \in Range(tree[q].peerNames) :
                InputDep(tree, p, name) = InputDep(tree, q, name)

\* the option cases: [opts.check, opts.debugLevel, NM_DEBUG_LEVEL]
OptionCases ==
  { <<Undefined, Undefined, Undefined>>,
    <<<<TRUE>>, Undefined, Undefined>>,
    <<Undefined, Undefined, <<0>>>>,
    <<Undefined, <<0>>, <<2>>>>,
    <<<<FALSE>>, <<9>>, <<0>>>> }

----------------------------------------------------------------------------
(* The state machine *)

M == [options |-> options, heap |-> heap, stack |-> stack, rootNodePath |-> rootNodePath,
      status |-> status, output |-> output, error |-> error, trail |-> trail]

Apply(m) ==
  /\ options' = m.options
  /\ heap' = m.heap
  /\ stack' = m.stack
  /\ rootNodePath' = m.rootNodePath
  /\ status' = m.status
  /\ output' = m.output
  /\ error' = m.error
  /\ trail' = m.trail
  /\ UNCHANGED <<input, opts, env, second>>

Init ==
  /\ \E f \in Families :
       \E c1 \in DepChoices(f, 1), c2 \in DepChoices(f, 2), c3 \in DepChoices(f, 3),
          c4 \in DepChoices(f, 4), c5 \in DepChoices(f, 5), c6 \in DepChoices(f, 6),
          c7 \in DepChoices(f, 7), c8 \in DepChoices(f, 8), c9 \in DepChoices(f, 9),
          c10 \in DepChoices(f, 10) :
         LET tree == <<inputNode(1, c1), inputNode(2, c2), inputNode(3, c3), inputNode(4, c4),
                       inputNode(5, c5), inputNode(6, c6), inputNode(7, c7), inputNode(8, c8),
                       inputNode(9, c9), inputNode(10, c10)>>
         IN WellFormed(tree) /\ input = tree
  /\ \E o \in OptionCases :
       /\ opts = [check |-> o[1], debugLevel |-> o[2]]
       /\ env = o[3]
  /\ options = [check |-> FALSE, debugLevel |-> -1]
  /\ heap = <<>>
  /\ stack = <<>>
  /\ rootNodePath = <<>>
  /\ status = "start"
  /\ output = <<>>
  /\ error = <<>>
  /\ trail = [roots |-> <<>>, shifted |-> FALSE, written |-> {}, writes |-> 0]
  /\ second = <<>>

Start == status = "start" /\ Apply(HoistStart(input, opts, env, RootPkg))

HoistToEnterStep == PcOf(M) = "hoistTo.enter" /\ Apply(HoistToEnter(M))
HoistToCallGraphStep == PcOf(M) = "hoistTo.do" /\ Apply(HoistToCallGraph(M))
HoistToShiftStep == PcOf(M) = "hoistTo.shift" /\ Apply(HoistToShift(M))
HoistToRecurseStep == PcOf(M) = "hoistTo.recurse" /\ Apply(HoistToRecurse(M))
HoistToAfterRecurseStep == PcOf(M) = "hoistTo.afterRecurse" /\ Apply(HoistToAfterRecurse(M))
HoistGraphDoStep == PcOf(M) = "hoistGraph.do" /\ Apply(HoistGraphDo(M))
HoistGraphForStep == PcOf(M) = "hoistGraph.for" /\ Apply(HoistGraphFor(M))
HoistGraphWhileStep == PcOf(M) = "hoistGraph.while" /\ Apply(HoistGraphWhile(M))
HoistNodeDependenciesEnterStep ==
  PcOf(M) = "hoistNodeDependencies.enter" /\ Apply(HoistNodeDependenciesEnter(M))
HoistNodeDependenciesChildStep ==
  PcOf(M) = "hoistNodeDependencies.child" /\ Apply(HoistNodeDependenciesChild(M))
HoistNodeDependenciesAfterCallStep ==
  PcOf(M) = "hoistNodeDependencies.afterCall" /\ Apply(HoistNodeDependenciesAfterCall(M))
HoistNodeDependenciesReturnStep ==
  PcOf(M) = "hoistNodeDependencies.return" /\ Apply(Pop(M))
HoistFinishStep == PcOf(M) = "finish" /\ Apply(HoistFinish(M))

Next ==
  \/ Start
  \/ HoistToEnterStep
  \/ HoistToCallGraphStep
  \/ HoistToShiftStep
  \/ HoistToRecurseStep
  \/ HoistToAfterRecurseStep
  \/ HoistGraphDoStep
  \/ HoistGraphForStep
  \/ HoistGraphWhileStep
  \/ HoistNodeDependenciesEnterStep
  \/ HoistNodeDependenciesChildStep
  \/ HoistNodeDependenciesAfterCallStep
  \/ HoistNodeDependenciesReturnStep
  \/ HoistFinishStep

Spec == Init /\ [][Next]_vars

\* the dependency sets of the graph, built in another order
Reordered(tree, how) ==
  [p \in DOMAIN tree |->
     LET deps == tree[p].dependencies
     IN [tree[p] EXCEPT !.dependencies =
           IF Len(deps) < 2 THEN deps
           ELSE IF how = "reverse" THEN [i \in 1..Len(deps) |-> deps[Len(deps) + 1 - i]]
           ELSE Append(Tail(deps), Head(deps))]]

\* A second call of hoist, after the first has returned: the same graph and options,
\* the dependency sets traversed in another order
Rerun ==
  /\ status = "returned"
  /\ second = <<>>
  /\ \E how \in {"reverse", "rotate"} :
       LET r == Run(HoistStart(Reordered(input, how), opts, env, RootPkg))
       IN second' = <<[how |-> how, status |-> r.status, output |-> r.output]>>
  /\ UNCHANGED <<input, opts, env, options, heap, stack, rootNodePath, status, output, error, trail>>

NextTwice == Next \/ Rerun

TwiceSpec == Init /\ [][NextTwice]_vars

\* hoist is one synchronous call: a step that can be taken is taken.  This is weak
\* fairness of Next, with ENABLED <<Next>>_vars written out as what it is in this
\* machine, status \notin {"returned", "thrown"}: PcOf names a step in every other state
FairSpec == Spec /\ ([]<>(status \in {"returned", "thrown"}) \/ []<><<Next>>_vars)

----------------------------------------------------------------------------
(* The work tree as a tree: paths and resolution *)

Last(path) == path[Len(path)]

RECURSIVE PathsFrom(_, _)
\* the paths of non-peer dependency edges that extend `path` and visit no node twice
PathsFrom(h, path) ==
  {path} \cup UNION {PathsFrom(h, Append(path, d)) :
                       d \in Range(RegularDeps(h, Last(path))) \ Range(path)}

TreePaths(h) == PathsFrom(h, <<Tree>>)

\* a node holds `name` when it has a dependency under it that is not a peer one
Holds(h, n, name) == MapHas(h[n].dependencies, name) /\ ~Has(h[n].peerNames, name)

\* the place on the path whose node holds `name`, the nearest first (0: none)
HolderIdx(h, path, name) ==
  LET holders == {i \in 1..Len(path) : Holds(h, path[i], name)}
  IN IF holders = {} THEN 0 ELSE CHOOSE i \in holders : \A j \in holders : j <= i

\* what the node at the end of the path resolves `name` to (0: nothing)
Resolve(h, path, name) ==
  LET k == HolderIdx(h, path, name)
  IN IF k = 0 THEN 0 ELSE MapGet(h[path[k]].dependencies, name)

\* the names a node originally declared as regular / as peer dependencies
OrigRegularNames(h, n) ==
  {name \in Range(MapKeys(h[n].originalDependencies)) : ~Has(h[n].peerNames, name)}
OrigPeerNames(h, n) ==
  {name \in Range(MapKeys(h[n].originalDependencies)) : Has(h[n].peerNames, name)}

RequireKept(h, path, name) ==
  /\ Resolve(h, path, name) # 0
  /\ h[Resolve(h, path, name)].ident = h[MapGet(h[Last(path)].originalDependencies, name)].ident

RequirePromise(h) ==
  \A path \in TreePaths(h) : \A name \in OrigRegularNames(h, Last(path)) :
     RequireKept(h, path, name)

\* The node at the end of the path resolves its dependency `name` to a node N held
\* by the k-th node of the path, N's parent in the hoisted tree: every peer of N
\* resolves there to what it resolves to for the package that declared N
PeerKept(h, path, name) ==
  LET k == HolderIdx(h, path, name)
      N == Resolve(h, path, name)
      parentPath == SubSeq(path, 1, k)
  IN k # 0 =>
       \A P \in OrigPeerNames(h, N) :
         /\ Resolve(h, parentPath, P) # 0
         /\ Resolve(h, path, P) # 0
         /\ h[Resolve(h, parentPath, P)].ident = h[Resolve(h, path, P)].ident

PeerPromise(h) ==
  \A path \in TreePaths(h) : \A name \in OrigRegularNames(h, Last(path)) :
     PeerKept(h, path, name)

----------------------------------------------------------------------------
(* Claims *)

\* C1: after hoist has returned, every originally declared non-peer dependency of
\* every node of the work tree resolves (own dependencies first, then the
\* ancestors', nearest first) to a node of the declared ident, dependencies on the
\* ident of the hoist root included
C1_RequirePromise == status = "returned" => RequirePromise(heap)

\* the same, leaving out the dependencies on the ident of the tree root
C1_RequirePromiseButRoot ==
  status = "returned" =>
    \A path \in TreePaths(heap) : \A name \in OrigRegularNames(heap, Last(path)) :
       heap[MapGet(heap[Last(path)].originalDependencies, name)].ident # heap[Tree].ident
          => RequireKept(heap, path, name)

\* C2: after hoist has returned, every peer dependency of every node resolves, where
\* the node now is, to the ident it resolves to for the package that declared the node
C2_PeerPromise == status = "returned" => PeerPromise(heap)

\* C3: in every state every entry (key -> node) of every work node's dependencies map
\* has node.name = key, and in the output no two children of one node share a name
C3_NameUniqueness ==
  /\ \A n \in DOMAIN heap : \A i \in LiveIdx(heap[n].dependencies) :
        heap[heap[n].dependencies[i].v].name = heap[n].dependencies[i].k
  /\ \A o \in DOMAIN output : \A c, d \in Range(output[o].dependencies) :
        c # d => output[c].name # output[d].name

\* hoist has returned a tree in which a node has several children and two instances
\* under one name were merged into one
C3_Witness ==
  /\ status = "returned"
  /\ \E o \in DOMAIN output : Len(output[o].dependencies) >= 3
  /\ \E n \in DOMAIN heap : Cardinality(heap[n].references) >= 2
  /\ \E n \in DOMAIN heap : heap[n].name # getIdentName(heap[n].locator)

RECURSIVE SumOver(_, _)
SumOver(identMap, i) ==
  IF i > Len(identMap) THEN 0 ELSE (Len(identMap[i].v) - 1) + SumOver(identMap, i + 1)

\* the sum over the names of (length of identMap[name] - 1)
Measure(identMap) == SumOver(MapEntries(identMap), 1)

Halted == status \in {"returned", "thrown"}

\* a turn of the loop of hoistTo that sets wasStateChanged makes the measure smaller
MeasureDecreases ==
  (PcOf(M) = "hoistTo.shift" /\ Top(M').wasStateChanged)
     => Measure(Top(M').hoistIdentMap) < Measure(Top(M).hoistIdentMap)

\* C4: every run of hoist halts (it returns or throws), and every turn of the loop of
\* hoistTo that sets wasStateChanged strictly decreases the sum over the names of
\* (length of identMap[name] - 1)
C4_Termination == <>Halted /\ [][MeasureDecreases]_vars

\* hoist has returned on a graph with a self-dependency, after a turn of the loop of
\* hoistTo that changed the idents
C4_Witness ==
  /\ status = "returned"
  /\ trail.shifted
  /\ input[2].dependencies = <<2>>

RECURSIVE Shape(_, _)
\* an output node up to isomorphism: children are told apart by their names, and a
\* node that is its own child is marked instead of unfolded
Shape(out, o) ==
  [name |-> out[o].name,
   identName |-> out[o].identName,
   references |-> out[o].references,
   self |-> o \in Range(out[o].dependencies),
   children |-> {Shape(out, c) : c \in Range(out[o].dependencies) \ {o}}]

\* C5: a second run of hoist on the same graph, its dependency sets traversed in
\* another order, returns a tree isomorphic to the first run's
C5_Determinism ==
  second # <<>> =>
    /\ second[1].status = "returned"
    /\ Shape(second[1].output, 1) = Shape(output, 1)

\* the reference without its virtual prefix, as makeIdent strips it
StripVirtual(reference) ==
  LET hashIdx == IndexOf(reference, "#", 0)
  IN IF hashIdx >= 0 THEN SubstringFrom(reference, hashIdx + 1) ELSE reference

RECURSIVE RegularReach(_, _)
\* the packages reached from those in `seen` through non-peer edges
RegularReach(tree, seen) ==
  LET more == seen \cup UNION {{q \in Range(tree[p].dependencies) :
                                  ~Has(tree[p].peerNames, tree[q].name)} : p \in seen}
  IN IF more = seen THEN seen ELSE RegularReach(tree, more)

InputPairs ==
  {<<input[p].identName, StripVirtual(input[p].reference)>> : p \in RegularReach(input, {RootPkg})}

OutputPairs ==
  UNION {{<<output[o].identName, StripVirtual(r)>> : r \in output[o].references} :
           o \in DOMAIN output}

\* C6: the (identName, virtual-stripped reference) pairs of the output tree are those
\* of the packages of the input graph reached from the root through non-peer edges
C6_NoLoss == status = "returned" => OutputPairs = InputPairs

\* the calls of hoistNodeDependencies in progress that have classified and hoisted
Passes == {i \in 1..Len(stack) : stack[i].op = "hoistNodeDependencies" /\ stack[i].pc # "enter"}

ClassOf(f, n) == MapGet(f.classified, n).isHoistable

RECURSIVE DependsReach(_, _)
\* the nodes reached from those in `seen` along dependsOn, through DEPENDS nodes
DependsReach(f, seen) ==
  LET more == seen \cup UNION {Range(MapGet(f.classified, n).dependsOn) :
                                 n \in {x \in seen : ClassOf(f, x) = "DEPENDS"}}
  IN IF more = seen THEN seen ELSE DependsReach(f, more)

\* C7: in every pass of hoistNodeDependencies over the dependencies of one parent, a
\* node classified DEPENDS is hoisted iff no node it reaches along the DEPENDS relation
\* is classified NO
C7_CyclicPeers ==
  \A i \in Passes :
     \A n \in Range(MapKeys(stack[i].classified)) :
        ClassOf(stack[i], n) = "DEPENDS" =>
           (Has(stack[i].hoisted, n)
              <=> \A x \in DependsReach(stack[i], {n}) : ClassOf(stack[i], x) # "NO")

\* a pass has hoisted two siblings that peer-depend on each other
C7_Witness ==
  \E i \in Passes : \E n, x \in Range(MapKeys(stack[i].classified)) :
     /\ n # x
     /\ ClassOf(stack[i], n) = "DEPENDS" /\ ClassOf(stack[i], x) = "DEPENDS"
     /\ Has(MapGet(stack[i].classified, n).dependsOn, x)
     /\ Has(MapGet(stack[i].classified, x).dependsOn, n)
     /\ Has(stack[i].hoisted, n) /\ Has(stack[i].hoisted, x)
     /\ ~MapHas(heap[stack[i].parentNode].dependencies, heap[n].name)
     /\ MapHas(heap[stack[i].parentNode].hoistedDependencies, heap[x].name)

\* the child of output node o under `name` (0: none)
OutChild(out, o, name) ==
  LET hits == {c \in Range(out[o].dependencies) : out[c].name = name}
  IN IF o = 0 \/ hits = {} THEN 0 ELSE CHOOSE c \in hits : TRUE

RECURSIVE OutAt(_, _, _, _)
\* the output node shrinkTree has built for the first k nodes of a path of work nodes
OutAt(h, out, path, k) ==
  IF k = 1 THEN 1 ELSE OutChild(out, OutAt(h, out, path, k - 1), h[path[k]].name)

\* the first place of node n on the path
PlaceOf(path, n) == CHOOSE k \in 1..Len(path) : path[k] = n /\ \A j \in 1..(k - 1) : path[j] # n

\* C8: where a dependency of the node at the end of a path of the work tree is a node
\* already on the path, the output node added for it is the one built for that node
C8_CyclesPreserved ==
  status = "returned" =>
    \A path \in TreePaths(heap) :
       \A d \in Range(RegularDeps(heap, Last(path))) \cap Range(path) :
          OutAt(heap, output, Append(path, d), Len(path) + 1)
             = OutAt(heap, output, path, PlaceOf(path, d))

\* C9: hoist raises a self-check error only when the effective debugLevel is >= 1,
\* whatever the check option is
C9_RaisesOnlyWhenDebug == status = "thrown" => options.debugLevel >= 1

\* the peer dependencies of the node at the end of a path that its parent (the
\* path without the node) resolves to nothing or to another ident than declared
BrokenPeers(h, path) ==
  {name \in OrigPeerNames(h, Last(path)) :
     LET parentDep == Resolve(h, SubSeq(path, 1, Len(path) - 1), name)
         origDep == MapGet(h[Last(path)].originalDependencies, name)
     IN parentDep = 0 \/ h[parentDep].ident # h[origDep].ident}

HasBrokenPeer(h) == \E path \in TreePaths(h) : Len(path) > 1 /\ BrokenPeers(h, path) # {}

\* C10: whenever the work tree hoist has finished with has a node whose peer-named
\* original dependency differs from what its parent supplies under that name,
\* selfCheck's log of the tree has a broken peer promise entry, and hoist with
\* debugLevel >= 1 has not returned
C10_SelfCheckReportsPeers ==
  (status = "returned" /\ HasBrokenPeer(heap)) =>
     /\ \E i \in 1..Len(selfCheck(heap, Tree)) :
          selfCheck(heap, Tree)[i].kind = "broken peer promise"
     /\ options.debugLevel < 1

\* the nodes of the work tree
TreeNodes(h) == {Last(path) : path \in TreePaths(h)}

\* the step writes to the dependencies, hoistedDependencies, reasons or references of n
Written(n) ==
  /\ n \in DOMAIN heap'
  /\ trail'.writes # trail.writes
  /\ n \in trail'.written

\* every node a step writes to is decoupled
WritesDecoupled ==
  \A n \in DOMAIN heap' :
     Written(n) => IF n \in DOMAIN heap THEN heap[n].decoupled ELSE heap'[n].decoupled

\* C11: in every step of hoisting, each write to the dependencies, hoistedDependencies,
\* reasons or references of a work node is applied to a node whose decoupled flag is
\* true
C11_CopyOnWrite == [][WritesDecoupled]_vars

\* the step is a pass of hoistNodeDependencies that has classified the dependencies of
\* its parentNode and gone on to the children
Classifies ==
  /\ PcOf(M) = "hoistNodeDependencies.enter"
  /\ Len(stack') = Len(stack)
  /\ stack'[Len(stack)].pc = "children"

\* the peer names of N that the immediate parent (the end of the path) does not
\* supply and a strict ancestor between the hoist root and the parent does
PeersFromAbove(h, path, N) ==
  {P \in Range(h[N].peerNames) :
     /\ ~Holds(h, Last(path), P)
     /\ \E idx \in 2..(Len(path) - 1) : Holds(h, path[idx], P)}

\* the nodes the immediate parent supplies for the peer names of N
PeersFromParent(h, path, N) ==
  {MapGet(h[Last(path)].dependencies, P) :
     P \in {Q \in Range(h[N].peerNames) : Holds(h, Last(path), Q)}}

\* C12: a node classified DEPENDS(S) has no peer supplied by a strict ancestor between
\* the hoist root and its immediate parent, and S is the set of the nodes the parent
\* supplies for its peers
C12_PeerClassification ==
  [][Classifies =>
       LET f == Top(M)
           path == Append(f.nodePath, f.parentNode)
           classified == stack'[Len(stack)].classified
       IN \A N \in Range(MapKeys(classified)) :
            MapGet(classified, N).isHoistable = "DEPENDS" =>
              /\ PeersFromAbove(heap, path, N) = {}
              /\ Range(MapGet(classified, N).dependsOn) = PeersFromParent(heap, path, N)]_vars

\* an ancestor strictly between the hoist root and the end of the path (the immediate
\* parent) holds a dependency under the name of N with another ident
ShadowedOnPath(h, path, N) ==
  \E idx \in 2..(Len(path) - 1) :
     /\ MapHas(h[path[idx]].dependencies, h[N].name)
     /\ h[MapGet(h[path[idx]].dependencies, h[N].name)].ident # h[N].ident

\* the dependencies hoisted above the hoist root hold the name of N with another ident
ShadowedAbove(h, hoistedDependencies, N) ==
  /\ MapHas(hoistedDependencies, h[N].name)
  /\ h[MapGet(hoistedDependencies, h[N].name)].ident # h[N].ident

\* C13: a pass of hoistNodeDependencies leaves under its parent every node whose name
\* is held with another ident by an ancestor strictly between the hoist root and the
\* parent, or by the dependencies already hoisted above the hoist root
C13_ShadowingBlocks ==
  [][Classifies =>
       LET f == Top(M)
           path == Append(f.nodePath, f.parentNode)
       IN \A N \in Range(RegularDeps(heap, f.parentNode)) :
            (ShadowedOnPath(heap, path, N) \/ ShadowedAbove(heap, ToFrame(M).hoistedDependencies, N))
            => /\ MapHas(heap'[f.parentNode].dependencies, heap[N].name)
               /\ MapGet(heap'[f.parentNode].dependencies, heap[N].name) = N
               /\ ~Has(stack'[Len(stack)].hoisted, N)]_vars

\* a pass has just classified a node whose name an ancestor strictly between the hoist
\* root and the parent holds with another ident, and has left it under its parent
C13_Witness ==
  /\ status = "hoisting" /\ stack # <<>>
  /\ Top(M).op = "hoistNodeDependencies" /\ Top(M).pc = "children"
  /\ LET f == Top(M)
         path == Append(f.nodePath, f.parentNode)
     IN \E N \in Range(RegularDeps(heap, f.parentNode)) :
          /\ ShadowedOnPath(heap, path, N)
          /\ MapHas(f.classified, N)
          /\ ~Has(f.hoisted, N)

\* the number of distinct idents of the nodes below R (R included) that have a non-peer
\* dependency under `name` with ident `ident`
Popularity(h, R, name, ident) ==
  Cardinality({h[p].ident : p \in {Last(path) : path \in
     {q \in PathsFrom(h, <<R>>) :
        \E d \in Range(RegularDeps(h, Last(q))) : h[d].name = name /\ h[d].ident = ident}}})

\* the names of the ident map that the hoist root does not host
Unhosted(h, R, identMap) ==
  {i \in LiveIdx(identMap) : ~MapHas(h[R].dependencies, identMap[i].k)}

\* hoistTo has built its ident map: the idents of a name the root does not host are in
\* non-increasing order of popularity, and the first is the candidate
CandidatesInOrder ==
  (PcOf(M) = "hoistTo.enter" /\ Len(stack') = Len(stack)) =>
    LET R == Top(M).rootNode
        f == stack'[Len(stack)]
    IN \A i \in Unhosted(heap, R, f.hoistIdentMap) :
         LET name == f.hoistIdentMap[i].k
             idents == f.hoistIdentMap[i].v
         IN /\ MapGet(f.hoistIdents, name) = idents[1]
            /\ \A a, b \in 1..Len(idents) :
                 a < b => Popularity(heap, R, name, idents[a]) >= Popularity(heap, R, name, idents[b])

\* after a pass of hoistGraph: a name the root does not host goes on to its next ident,
\* every other name keeps its candidate, and the loop ends only when every name is
\* hosted or at its last ident
CandidatesFallBack ==
  PcOf(M) = "hoistTo.shift" =>
    LET R == Top(M).rootNode
        f == Top(M)
        g == stack'[Len(stack)]
    IN /\ \A i \in LiveIdx(f.hoistIdentMap) :
            LET name == f.hoistIdentMap[i].k
                idents == f.hoistIdentMap[i].v
            IN IF Len(idents) > 1 /\ ~MapHas(heap[R].dependencies, name)
               THEN /\ g.hoistIdentMap[i].v = Tail(idents)
                    /\ MapGet(g.hoistIdents, name) = idents[2]
                    /\ g.pc = "do"
               ELSE /\ g.hoistIdentMap[i].v = idents
                    /\ MapGet(g.hoistIdents, name) = idents[1]
       /\ g.pc = "recurse" =>
            \A i \in LiveIdx(g.hoistIdentMap) :
               \/ MapHas(heap[R].dependencies, g.hoistIdentMap[i].k)
               \/ Len(g.hoistIdentMap[i].v) = 1

\* C14: the idents of a name the hoist root does not host are the candidates of
\* successive hoistGraph passes in non-increasing order of popularity, one per pass, and
\* the loop of hoistTo ends only when every name is hosted or its last ident was tried
C14_CandidateOrder == [][CandidatesInOrder /\ CandidatesFallBack]_vars

\* C15: during one call of hoist no work node is the hoist root of more than one call of
\* hoistTo that does its work: the roots hoistTo has worked on are all different
C15_VisitedRoots ==
  /\ \A i, j \in 1..Len(trail.roots) : i # j => trail.roots[i] # trail.roots[j]
  /\ (status = "hoisting" /\ PcOf(M) = "hoistTo.enter") =>
        \A i \in 1..Len(trail.roots) : trail.roots[i] # Top(M).rootNode

\* the names getHoistIdentMap pins for hoist root R: its own name and the names of its
\* non-peer direct dependencies
PinnedNames(h, R) ==
  {h[R].name} \cup {h[d].name : d \in {e \in Range(MapValues(h[R].dependencies)) :
                                        ~Has(h[R].peerNames, h[e].name)}}

\* the map hoistTo gets from getHoistIdentMap has one ident for every pinned name
PinnedAlone ==
  (PcOf(M) = "hoistTo.enter" /\ Len(stack') = Len(stack)) =>
    LET f == stack'[Len(stack)]
    IN \A i \in LiveIdx(f.hoistIdentMap) :
         f.hoistIdentMap[i].k \in PinnedNames(heap, Top(M).rootNode)
           => Len(f.hoistIdentMap[i].v) = 1

\* the candidate of the root's own name is the root's ident, the candidate of a hosted
\* name is the ident the root holds
PinnedCandidates ==
  (status' = "hoisting" /\ stack' # <<>>) =>
    \A k \in 1..Len(stack') :
       stack'[k].op = "hoistTo" /\ stack'[k].pc \in {"do", "shift"} =>
         LET R == stack'[k].rootNode
         IN /\ MapGet(stack'[k].hoistIdents, heap'[R].name) = heap'[R].ident
            /\ \A e \in Range(MapValues(heap'[R].dependencies)) :
                 ~Has(heap'[R].peerNames, heap'[e].name) =>
                    MapGet(stack'[k].hoistIdents, heap'[e].name) = heap'[e].ident

\* no step of hoisting puts a dependency under a node's own name into that node, and
\* none replaces a dependency by a node of another ident
PinnedPlaced ==
  (status = "hoisting" /\ status' = "hoisting") =>
    \A n \in 1..Len(heap) :
       /\ ~MapHas(heap[n].dependencies, heap[n].name)
            => ~MapHas(heap'[n].dependencies, heap[n].name)
       /\ \A i \in LiveIdx(heap[n].dependencies) :
            LET name == heap[n].dependencies[i].k
            IN MapHas(heap'[n].dependencies, name) =>
                 heap'[MapGet(heap'[n].dependencies, name)].ident
                    = heap[heap[n].dependencies[i].v].ident

\* C16: the ident map has exactly one ident for the hoist root's own name and for every
\* name the root holds as a non-peer dependency, so that no other ident of such a name
\* becomes a hoist candidate for that root or is placed in its dependencies
C16_PinnedNames == [][PinnedAlone /\ PinnedCandidates /\ PinnedPlaced]_vars

\* x is on a cycle of non-peer dependency edges
OnCycle(h, x) == \E q \in PathsFrom(h, <<x>>) : x \in Range(RegularDeps(h, Last(q)))

\* two or more paths of non-peer dependency edges lead from the tree root to n: two that
\* visit no node twice, or one that can go round a cycle on its way
ManyPaths(h, n) ==
  LET to == {path \in TreePaths(h) : Last(path) = n}
  IN \/ Cardinality(to) >= 2
     \/ \E path \in to : \E k \in 1..Len(path) : OnCycle(h, path[k])

\* C17: in the work tree cloneTree returns, a node has decoupled = true if and only if
\* exactly one path of non-peer dependency edges leads from the tree root to it; a node
\* with two or more such paths, one below a cycle included, has decoupled = false
C17_ImportCoupling ==
  (status = "hoisting" /\ trail.roots = <<>>) =>
    \A n \in TreeNodes(heap) : heap[n].decoupled <=> ~ManyPaths(heap, n)

\* a pass has hoisted its nodes: the node that stands for the ident of each hoisted
\* node C at the hoist root R (the dependency of R under C's name, or R itself when C
\* has R's ident) has the references of C
MergedAtRoot ==
  Classifies =>
    LET R == ToFrame(M).rootNode
    IN \A C \in Range(stack'[Len(stack)].hoisted) :
         \/ /\ MapHas(heap'[R].dependencies, heap[C].name)
            /\ heap'[MapGet(heap'[R].dependencies, heap[C].name)].ident = heap[C].ident
            /\ heap[C].references
                 \subseteq heap'[MapGet(heap'[R].dependencies, heap[C].name)].references
         \/ /\ heap[C].ident = heap[R].ident
            /\ heap[C].references \subseteq heap'[R].references

\* a node gets references only from a hoisted node of its own ident
MergedByIdent ==
  status = "hoisting" =>
    \A n \in DOMAIN heap :
       n \in DOMAIN heap' /\ heap'[n].references # heap[n].references =>
         /\ Classifies
         /\ \A r \in heap'[n].references \ heap[n].references :
              \E C \in Range(stack'[Len(stack)].hoisted) :
                 r \in heap[C].references /\ heap[C].ident = heap[n].ident

\* hoist returns: the reference of every input package reached through non-peer edges
\* is among the references of an output node of the same identName
ReferencesKept ==
  (status = "hoisting" /\ status' = "returned") =>
    \A p \in RegularReach(input, {RootPkg}) :
       \E o \in DOMAIN output' :
          output'[o].identName = input[p].identName
            /\ input[p].reference \in output'[o].references

\* C18: when a node is hoisted, the node that stands for its ident at the hoist root has
\* all its references afterwards, references are only added to a node of the same
\* ident, and so every reference of every input package reached through non-peer edges
\* is among the references of an output node of the same identName
C18_ReferenceMerging == [][MergedAtRoot /\ MergedByIdent /\ ReferencesKept]_vars

====
